---- MODULE Spec2Model ----
(***************************************************************************)
(* Model of src/js/index.tsx: the task x language browser.                 *)
(*                                                                         *)
(* The corpus (TASKS, PROGRAMS, LANGUAGES) is built once at module load    *)
(* and never changes.  The user interface is a router with three routes    *)
(* (Matrix, TaskView, LangView); Matrix owns one hover value, a PivotView  *)
(* owns a selected list and a hover value.  Every event handler of the     *)
(* source is one action.  A render that throws unmounts the whole React    *)
(* tree (there is no error boundary), after which no handler exists.       *)
(*                                                                         *)
(* Strings that are only compared for equality are TLA+ strings; the task  *)
(* descriptions, which lodash orders with <, are sequences of character    *)
(* codes compared lexicographically.                                       *)
(***************************************************************************)
EXTENDS Integers, Sequences, FiniteSets, TLC

VARIABLES
    TASKS,          \* index.tsx:20  sorted Task[]
    PROGRAMS,       \* index.tsx:25  Program[] in load order
    route,          \* the location the Switch matched: [view, id]
    rendered,       \* FALSE once a render threw and React unmounted the tree
    selected,       \* index.tsx:62  PivotView state
    hover,          \* index.tsx:63  PivotView state
    matrix_hover,   \* index.tsx:151 Matrix state
    last,           \* history: the last event handled, [op, id]; id is the
                    \* pivot of a minimap cell click and null otherwise
    toggle_run,     \* history: [id, n], the n (at most 2) clicks on minimap
                    \* cell id in a row, the first on an empty selection
    session         \* the browser's session history, as far as it matters:
                    \* the Detail View route two entries away from the
                    \* current entry, NO_ENTRY when there is none, and
                    \* UNTRACKED in the specifications without traversals

vars == <<TASKS, PROGRAMS, route, rendered, selected, hover, matrix_hover,
          last, toggle_run, session>>

(***************************************************************************)
(* Bounds and input pools of the corpus.                                   *)
(***************************************************************************)
MaxPrograms == 2

\* ids of the tasks whose category and description are drawn freely
EXTRA_TASK_IDS == <<"t1">>
\* tasks a program is drawn for
ProgramTaskPool == {"t1", "b1"}
\* categories drawn for them: the first and third of the order, and one
\* that is not in the order
CategoryPool == {"Basic", "Strings", "Misc"}
\* descriptions drawn for them, as character codes
DescriptionPool == {<<1>>, <<1, 2>>, <<2>>}
\* languages a program is drawn for
ProgramLanguagePool == {"python-imperative", "sql"}
\* an id no task and no language has
UNKNOWN_ID == "nope"

(***************************************************************************)
(* JavaScript values.                                                      *)
(***************************************************************************)
undefined == [undefined |-> TRUE]
null == "<null>"
NULL_HOVER == [type |-> "null", id |-> null]

Range(s) == {s[i] : i \in 1..Len(s)}

(***************************************************************************)
(* lodash helpers.                                                         *)
(***************************************************************************)
\* _.findIndex(array, x => x == value): zero-based index of the first
\* element equal to value, or -1
findIndex(array, value) ==
    LET hits == {i \in 1..Len(array) : array[i] = value}
    IN  IF hits = {} THEN -1
        ELSE (CHOOSE i \in hits : \A j \in hits : i <= j) - 1

\* _.find(array, {[key]: value}): the first element whose field key is
\* value, or undefined
find(array, key, value) ==
    LET hits == {i \in 1..Len(array) : array[i][key] = value}
    IN  IF hits = {} THEN undefined
        ELSE array[CHOOSE i \in hits : \A j \in hits : i <= j]

\* array.filter(x => x[key] == value)
filter(array, key, value) == SelectSeq(array, LAMBDA x : x[key] = value)

\* _.includes
includes(array, x) == x \in Range(array)

\* JavaScript's < on strings: lexicographic on code units, a proper prefix
\* is smaller
RECURSIVE StrLess(_, _)
StrLess(a, b) ==
    IF b = <<>> THEN FALSE
    ELSE IF a = <<>> THEN TRUE
    ELSE IF Head(a) # Head(b) THEN Head(a) < Head(b)
    ELSE StrLess(Tail(a), Tail(b))

(***************************************************************************)
(* The corpus: index.tsx:17-29.                                            *)
(***************************************************************************)
TASK_GROUP_ORDER ==
    <<"Basic", "Aggregation", "Strings", "First-order logic",
      "Method Chaining", "Graph Reachability", "Time Series">>

LANG_ORDER ==
    <<"python-imperative", "python-functional", "python-pandas", "sql",
      "datalog">>

\* LANGUAGES = LANG_ORDER.map(id => _LANGUAGES[id]); every language of the
\* order has a record, named after its id
LANGUAGES == [i \in 1..Len(LANG_ORDER) |->
                 [id |-> LANG_ORDER[i], name |-> LANG_ORDER[i]]]

\* first iteratee of the sort: t => _.findIndex(TASK_GROUP_ORDER, c => c == t.category)
CategoryIndex_last(t) ==
    LET i == findIndex(TASK_GROUP_ORDER, t.category)
    IN  IF i > -1 THEN i ELSE Len(TASK_GROUP_ORDER)
CategoryIndex(t) == findIndex(TASK_GROUP_ORDER, t.category)

\* lodash compareMultiple over the two iteratees [CategoryIndex, 'description']:
\* TRUE when a must come before b by the criteria alone
TaskLess_category_only(a, b) == CategoryIndex(a) < CategoryIndex(b)
TaskLess(a, b) ==
    \/ CategoryIndex(a) < CategoryIndex(b)
    \/ /\ CategoryIndex(a) = CategoryIndex(b)
       /\ StrLess(a.description, b.description)

\* _.sortBy is a stable sort: elements equal by the criteria keep their
\* input order.  Insert x behind every element that is not greater than x.
RECURSIVE InsertTask(_, _)
InsertTask(sorted, x) ==
    IF sorted = <<>> THEN <<x>>
    ELSE IF TaskLess(x, Head(sorted)) THEN <<x>> \o sorted
    ELSE <<Head(sorted)>> \o InsertTask(Tail(sorted), x)

RECURSIVE sortBy(_)
sortBy(collection) ==
    IF collection = <<>> THEN <<>>
    ELSE InsertTask(sortBy(SubSeq(collection, 1, Len(collection) - 1)),
                    collection[Len(collection)])

(***************************************************************************)
(* The corpora the model starts from.                                      *)
(***************************************************************************)
\* one task of every category of the order: with them Matrix can render
BaseTasks == [i \in 1..Len(TASK_GROUP_ORDER) |->
                 [id |-> <<"b1", "b2", "b3", "b4", "b5", "b6", "b7">>[i],
                  description |-> <<1, 2>>,
                  category |-> TASK_GROUP_ORDER[i]]]

ExtraTasks ==
    UNION {
        { [i \in 1..n |-> [id |-> EXTRA_TASK_IDS[i],
                           description |-> d[i],
                           category |-> c[i]]] :
            d \in [1..n -> DescriptionPool], c \in [1..n -> CategoryPool] }
        : n \in 0..Len(EXTRA_TASK_IDS) }

\* the values of _TASKS in load order
TaskCorpora == ExtraTasks \cup {e \o BaseTasks : e \in ExtraTasks}

\* the flattened _PROGRAMS in load order; source is the load position, so
\* that two programs of one (task, language) pair are told apart
ProgramCorpora ==
    UNION {
        { [i \in 1..n |-> [task |-> t[i], language |-> l[i], source |-> i]] :
            t \in [1..n -> ProgramTaskPool],
            l \in [1..n -> ProgramLanguagePool] }
        : n \in 0..MaxPrograms }

(***************************************************************************)
(* Routes: index.tsx:213-233.                                              *)
(***************************************************************************)
MATRIX_ROUTE == [view |-> "matrix", id |-> null]
TaskRoute(id) == [view |-> "task", id |-> id]
LangRoute(id) == [view |-> "lang", id |-> id]

\* TaskView / LangView: the props PivotView is given for a route
group_key(r) == IF r.view = "task" THEN "task" ELSE "language"
pivot_key(r) == IF r.view = "task" THEN "language" ELSE "task"
group_value(r) ==
    IF r.view = "task"
    THEN find(TASKS, "id", r.id)
    ELSE find(LANGUAGES, "id", r.id)

(***************************************************************************)
(* PivotView: index.tsx:61-142.                                            *)
(***************************************************************************)
\* line 65
programs(r) == filter(PROGRAMS, group_key(r), group_value(r).id)

\* lines 88-89
pivot_values(r) == IF pivot_key(r) = "language" THEN LANGUAGES ELSE TASKS

\* _.find(programs, {[pivot_key]: id}): lines 90, 111, 127
resolve(r, id) == find(programs(r), pivot_key(r), id)

\* line 90
valid_values_program_order(r) ==
    LET key == pivot_key(r)
        ps == SelectSeq(programs(r), LAMBDA p :
                  find(pivot_values(r), "id", p[key]) # undefined)
    IN  [i \in 1..Len(ps) |-> find(pivot_values(r), "id", ps[i][key])]
valid_values_any_group(r) ==
    LET key == pivot_key(r)
    IN  SelectSeq(pivot_values(r),
                  LAMBDA v : find(PROGRAMS, key, v.id) # undefined)
valid_values(r) ==
    LET ps == programs(r)
        key == pivot_key(r)
    IN  SelectSeq(pivot_values(r), LAMBDA v : find(ps, key, v.id) # undefined)

\* line 96: valid_values.map(v => v.id)
valid_ids(r) ==
    LET vs == valid_values(r)
    IN  [i \in 1..Len(vs) |-> vs[i].id]

\* lines 110-118: the body cell of the minimap column of pivot value v
MinimapBody_inverted(r, v) ==
    LET program == resolve(r, v.id)
    IN  IF program = undefined
        THEN [kind |-> "Cell", source |-> 0]
        ELSE [kind |-> "Not implemented", source |-> 0]
MinimapBody(r, v) ==
    LET program == resolve(r, v.id)
    IN  IF program # undefined
        THEN [kind |-> "Cell", source |-> program.source]
        ELSE [kind |-> "Not implemented", source |-> 0]

\* lines 101-121: the minimap, one column (header cell over body cell) per
\* element of valid_values
Minimap(r) ==
    LET vs == valid_values(r)
    IN  [i \in 1..Len(vs) |->
            [pivot |-> vs[i].id, body |-> MinimapBody(r, vs[i])]]

\* line 127
selected_programs_pivot_order(r, sel) ==
    LET ps == programs(r)
        key == pivot_key(r)
        ids == SelectSeq(valid_ids(r), LAMBDA id : includes(sel, id))
               \o SelectSeq(sel, LAMBDA id : ~includes(valid_ids(r), id))
    IN  [i \in 1..Len(ids) |-> find(ps, key, ids[i])]
selected_programs(r, sel) ==
    LET ps == programs(r)
        key == pivot_key(r)
    IN  [i \in 1..Len(sel) |-> find(ps, key, sel[i])]

\* the places where rendering PivotView dereferences undefined
PivotViewThrows(r, sel) ==
    \/ group_value(r) = undefined                          \* lines 65, 130
    \/ LET vs == valid_values(r)                           \* line 112
       IN  \E i \in 1..Len(vs) : resolve(r, vs[i].id) = undefined
    \/ LET progs == selected_programs(r, sel)              \* line 137
       IN  \E i \in 1..Len(sel) :
               \/ progs[i] = undefined
               \/ find(pivot_values(r), "id", progs[i][pivot_key(r)])
                      = undefined

\* line 91
desc_key(k) == IF k = "language" THEN "name" ELSE "description"

\* _.chunk(array, size)
chunk(array, size) ==
    [j \in 1..((Len(array) + size - 1) \div size) |->
        SubSeq(array, (j - 1) * size + 1,
               IF j * size < Len(array) THEN j * size ELSE Len(array))]

\* lines 135-139: one program-container, its heading and the Code it shows
ProgramContainer(r, prog) ==
    [heading |-> find(pivot_values(r), "id",
                      prog[pivot_key(r)])[desc_key(pivot_key(r))],
     program |-> prog]

\* lines 133-140: the program-rows below the minimap
ProgramRows(r, sel) ==
    LET rows == chunk(selected_programs(r, sel), 2)
    IN  [j \in 1..Len(rows) |->
            [i \in 1..Len(rows[j]) |-> ProgramContainer(r, rows[j][i])]]

(***************************************************************************)
(* Matrix: index.tsx:150-206.                                              *)
(***************************************************************************)
\* line 154: _.groupBy(TASKS, 'category')[key], undefined when no task has it
task_groups(key) ==
    IF \E i \in 1..Len(TASKS) : TASKS[i].category = key
    THEN filter(TASKS, "category", key)
    ELSE undefined

\* line 176: tasks.map on a group that is undefined
MatrixThrows ==
    \E g \in 1..Len(TASK_GROUP_ORDER) :
        \A i \in 1..Len(TASKS) : TASKS[i].category # TASK_GROUP_ORDER[g]

\* lines 175-176: the tasks that get a row
MatrixRowTasks ==
    {t \in Range(TASKS) : t.category \in Range(TASK_GROUP_ORDER)}

\* lines 190-193
is_hover_lang_only(h, task, lang) ==
    IF h # NULL_HOVER THEN h.type = "lang" /\ h.id = lang.id ELSE FALSE
is_hover(h, task, lang) ==
    IF h # NULL_HOVER
    THEN \/ (h.type = "lang" /\ h.id = lang.id)
         \/ (h.type = "task" /\ h.id = task.id)
    ELSE FALSE

\* A className is modelled as the set of its class names; an element is
\* drawn highlighted when it carries the class hover.
Highlighted(className) == "hover" \in className

\* line 195: className of the data cell
DataCellClass(h, task, lang) ==
    IF is_hover(h, task, lang) THEN {"task-code", "hover"} ELSE {"task-code"}

\* line 164: className of a language column header
ColumnHeaderClass_hover(h, lang) ==
    IF h = [type |-> "lang", id |-> lang.id]
    THEN {"hoverable", "hover"} ELSE {"hoverable"}
ColumnHeaderClass(h, lang) == {"hoverable"}

\* line 181: className of a task-description cell
TaskDescriptionClass(h, task) == {"task-description", "hoverable"}

\* line 189
MatrixProgram_last(task, lang) ==
    LET ps == filter(filter(PROGRAMS, "task", task.id), "language", lang.id)
    IN  IF ps = <<>> THEN undefined ELSE ps[Len(ps)]
MatrixProgram(task, lang) ==
    find(filter(PROGRAMS, "task", task.id), "language", lang.id)

\* lines 195-199: the children of the data cell, one Cell element or the
\* empty string (no child)
DataCell(task, lang) ==
    LET program == MatrixProgram(task, lang)
    IN  IF program # undefined
        THEN <<[program |-> program, task |-> task]>>
        ELSE <<>>

(***************************************************************************)
(* App: index.tsx:208-238.                                                 *)
(***************************************************************************)
AppThrows(r, sel) ==
    IF r.view = "matrix" THEN MatrixThrows ELSE PivotViewThrows(r, sel)

\* the locations the page can be loaded at
InitialRoutes ==
    {MATRIX_ROUTE}
    \cup {TaskRoute(id) : id \in ProgramTaskPool \cup {UNKNOWN_ID}}
    \cup {LangRoute(id) : id \in ProgramLanguagePool \cup {UNKNOWN_ID}}

Event(op, id) == [op |-> op, id |-> id]
NO_RUN == [id |-> null, n |-> 0]
NO_ENTRY == [view |-> "none", id |-> null]
UNTRACKED == [view |-> "untracked", id |-> null]

\* module load and the first render, for a corpus and a location drawn
\* from the given sets
Load(taskCorpora, programCorpora, routes, entry) ==
    \E raw \in taskCorpora :
      /\ TASKS = sortBy(raw)
      /\ \E progs \in programCorpora, r \in routes :
        /\ PROGRAMS = progs
        /\ route = r
        /\ selected = <<>>
        /\ hover = null
        /\ matrix_hover = NULL_HOVER
        /\ rendered = ~AppThrows(r, <<>>)
        /\ last = Event("load", null)
        /\ toggle_run = NO_RUN
        /\ session = entry

Init == Load(TaskCorpora, ProgramCorpora, InitialRoutes, UNTRACKED)

InMatrix == rendered /\ route.view = "matrix"
InPivotView == rendered /\ route.view # "matrix"

\* history.push / Link: the Switch mounts the matched route's view afresh.
\* Every navigation of the page goes Matrix -> Detail View or Detail View ->
\* Matrix and pushes an entry: after Back the Detail View just left is two
\* entries away from the next Detail View.
Navigate(r, op) ==
    /\ route' = r
    /\ selected' = <<>>
    /\ hover' = null
    /\ matrix_hover' = NULL_HOVER
    /\ rendered' = ~AppThrows(r, <<>>)
    /\ last' = Event(op, null)
    /\ toggle_run' = NO_RUN
    /\ session' = IF session = UNTRACKED THEN UNTRACKED
                  ELSE IF r.view = "matrix" THEN route
                  ELSE session
    /\ UNCHANGED <<TASKS, PROGRAMS>>

\* a Matrix handler that only sets the Matrix hover
SetMatrixHover(h, op) ==
    /\ matrix_hover' = h
    /\ last' = Event(op, null)
    /\ UNCHANGED <<TASKS, PROGRAMS, route, rendered, selected, hover,
                   toggle_run, session>>

\* line 165
ColumnHeaderMouseEnter(lang) ==
    /\ InMatrix
    /\ SetMatrixHover([type |-> "lang", id |-> lang.id], "th.enter")

\* line 166
ColumnHeaderMouseLeave(lang) ==
    /\ InMatrix
    /\ SetMatrixHover(NULL_HOVER, "th.leave")

\* line 167
ColumnHeaderClick(lang) ==
    /\ InMatrix
    /\ Navigate(LangRoute(lang.id), "th.click")

\* line 182
TaskDescriptionMouseEnter(task) ==
    /\ InMatrix
    /\ SetMatrixHover([type |-> "task", id |-> task.id], "td.enter")

\* line 183
TaskDescriptionMouseLeave(task) ==
    /\ InMatrix
    /\ SetMatrixHover(NULL_HOVER, "td.leave")

\* line 184
TaskDescriptionClick(task) ==
    /\ InMatrix
    /\ Navigate(TaskRoute(task.id), "td.click")

\* lines 209-211
BackButtonClick ==
    /\ InPivotView
    /\ Navigate(MATRIX_ROUTE, "back")

\* a PivotView handler: the new selected list and hover, then the render
SetPivotState(sel, h, op, id) ==
    /\ selected' = sel
    /\ hover' = h
    /\ rendered' = ~PivotViewThrows(route, sel)
    /\ last' = Event(op, id)
    /\ toggle_run' =
           IF op # "cell.click" THEN NO_RUN
           ELSE IF selected = <<>> THEN [id |-> id, n |-> 1]
           ELSE IF toggle_run = [id |-> id, n |-> 1] THEN [id |-> id, n |-> 2]
           ELSE NO_RUN
    /\ UNCHANGED <<TASKS, PROGRAMS, route, matrix_hover, session>>

\* line 74
MinimapCellMouseEnter_select(pivot) ==
    /\ InPivotView
    /\ SetPivotState(IF includes(selected, pivot) THEN selected
                     ELSE Append(selected, pivot), pivot, "cell.enter", null)
MinimapCellMouseEnter(pivot) ==
    /\ InPivotView
    /\ SetPivotState(selected, pivot, "cell.enter", null)

\* line 75
MinimapCellMouseLeave(pivot) ==
    /\ InPivotView
    /\ SetPivotState(selected, null, "cell.leave", null)

\* lines 76-85: the list set_selected is given
toggle_always_append(sel, pivot) == Append(sel, pivot)
toggle_keep_one(sel, pivot) ==
    LET idx == findIndex(sel, pivot)
    IN  IF idx > -1
        THEN SubSeq(sel, 1, idx + 1)
        ELSE Append(sel, pivot)
toggle(sel, pivot) ==
    LET idx == findIndex(sel, pivot)
    IN  IF idx > -1
        THEN SubSeq(sel, 1, idx)        \* s.splice(idx): drops s[idx..]
        ELSE Append(sel, pivot)

\* line 76
MinimapCellClick(pivot) ==
    /\ InPivotView
    /\ SetPivotState(toggle(selected, pivot), hover, "cell.click", pivot)

\* line 96: the list set_selected is given
toggleAll_invert(r, sel) ==
    SelectSeq(valid_ids(r), LAMBDA id : ~includes(sel, id))
toggleAll(r, sel) == IF Len(sel) = 0 THEN valid_ids(r) ELSE <<>>

\* line 95
ToggleAllClick ==
    /\ InPivotView
    /\ SetPivotState(toggleAll(route, selected), hover, "toggleAll", null)

\* the ids that have a minimap column, and with it the cell handlers
MinimapPivots == IF InPivotView THEN Range(valid_ids(route)) ELSE {}

Next ==
    \/ \E lang \in Range(LANGUAGES) : ColumnHeaderMouseEnter(lang)
    \/ \E lang \in Range(LANGUAGES) : ColumnHeaderMouseLeave(lang)
    \/ \E lang \in Range(LANGUAGES) : ColumnHeaderClick(lang)
    \/ \E task \in MatrixRowTasks : TaskDescriptionMouseEnter(task)
    \/ \E task \in MatrixRowTasks : TaskDescriptionMouseLeave(task)
    \/ \E task \in MatrixRowTasks : TaskDescriptionClick(task)
    \/ BackButtonClick
    \/ \E pivot \in MinimapPivots : MinimapCellMouseEnter(pivot)
    \/ \E pivot \in MinimapPivots : MinimapCellMouseLeave(pivot)
    \/ \E pivot \in MinimapPivots : MinimapCellClick(pivot)
    \/ ToggleAllClick

Spec == Init /\ [][Next]_vars

(***************************************************************************)
(* Traversal of the session history: index.tsx:226 (BrowserRouter renders  *)
(* the location of every popstate).  The Switch keeps one Route element    *)
(* per path and none has a key, so going from /task/a straight to /task/b  *)
(* (or from /lang/a to /lang/b) re-renders the mounted TaskRoute and its   *)
(* PivotView with the new group_value and keeps the useState values; a     *)
(* change of path pattern mounts the other view afresh.                    *)
(***************************************************************************)
\* history.go(-2) / history.go(2) from a Detail View to the Detail View
\* two entries away
HistoryGo ==
    /\ InPivotView
    /\ session \notin {UNTRACKED, NO_ENTRY}
    /\ route' = session
    /\ selected' = IF session.view = route.view THEN selected ELSE <<>>
    /\ hover' = IF session.view = route.view THEN hover ELSE null
    /\ rendered' = ~AppThrows(session, selected')
    /\ last' = Event("history.go", null)
    /\ toggle_run' = NO_RUN
    /\ session' = route
    /\ UNCHANGED <<TASKS, PROGRAMS, matrix_hover>>

\* the corpus of the specification with traversals: the tasks of every
\* category and one more task of the first
HistoryTaskCorpora ==
    {<<[id |-> "t1", description |-> <<1>>, category |-> "Basic"]>>
         \o BaseTasks}

InitHistory ==
    Load(HistoryTaskCorpora, ProgramCorpora, {MATRIX_ROUTE}, NO_ENTRY)

NextHistory ==
    \/ Next
    \/ HistoryGo

SpecHistory == InitHistory /\ [][NextHistory]_vars

(***************************************************************************)
(* The page over a corpus in which one task is implemented in up to        *)
(* MaxPrograms + 1 languages, loaded at the Matrix: a Detail View with an  *)
(* odd number of panels in two rows.                                       *)
(***************************************************************************)
PanelLanguagePool == {"python-imperative", "python-pandas", "sql"}

PanelProgramCorpora ==
    UNION {
        { [i \in 1..n |-> [task |-> "b1", language |-> l[i], source |-> i]] :
            l \in [1..n -> PanelLanguagePool] }
        : n \in 0..(MaxPrograms + 1) }

InitPanels ==
    Load({BaseTasks}, PanelProgramCorpora, {MATRIX_ROUTE}, UNTRACKED)

SpecPanels == InitPanels /\ [][Next]_vars

(***************************************************************************)
(* Properties.                                                             *)
(***************************************************************************)
\* the task has a category of the fixed category order
KnownCategory(t) == t.category \in Range(TASK_GROUP_ORDER)

\* position of a category in the fixed category order
CategoryPosition(c) ==
    CHOOSE k \in 1..Len(TASK_GROUP_ORDER) : TASK_GROUP_ORDER[k] = c

\* some Program pairs the task with the language
HasProgram(taskId, langId) ==
    \E k \in 1..Len(PROGRAMS) :
        PROGRAMS[k].task = taskId /\ PROGRAMS[k].language = langId

\* the route is a Detail View of a Task or Language that exists
BoundDetailView == route.view # "matrix" /\ group_value(route) # undefined

\* some Program of the route's group has the pivot id
Represented(id) ==
    IF route.view = "task" THEN HasProgram(route.id, id)
    ELSE HasProgram(id, route.id)

\* a Task Detail View of a task with a Program for some languages only
PartlyImplementedTaskView ==
    /\ rendered
    /\ route.view = "task"
    /\ \E l \in Range(LANGUAGES) : HasProgram(route.id, l.id)
    /\ \E l \in Range(LANGUAGES) : ~HasProgram(route.id, l.id)

\* C1 (as claimed): a click on minimap cell id removes exactly id from a
\* selection that contains it, keeping the others in order, and appends id
\* to a selection that does not contain it.
C1_ToggleRemovesExactlyTheId ==
    [][last'.op = "cell.click" =>
          LET id == last'.id
          IN  selected' = IF includes(selected, id)
                          THEN SelectSeq(selected, LAMBDA x : x # id)
                          ELSE Append(selected, id)]_vars

\* C2: Toggle All sets selected to the ids of all N valid values when the
\* selection is empty, N being the number of represented pivot ids, and to
\* the empty list when it is not empty, also when only partly selected.
C2_ToggleAllSelectsAllOrClears ==
    [][last'.op = "toggleAll" =>
          IF selected = <<>>
          THEN /\ selected' = valid_ids(route)
               /\ Range(selected') =
                      {v.id : v \in {w \in Range(pivot_values(route)) :
                                        Represented(w.id)}}
               /\ Len(selected') = Cardinality(Range(selected'))
          ELSE selected' = <<>>]_vars

\* C2 witness: Toggle All has just selected both of two valid values.
C2_Witness ==
    /\ rendered
    /\ last.op = "toggleAll"
    /\ Len(selected) = 2
    /\ selected = valid_ids(route)

\* C3 (as claimed): every Task of an unknown category is placed after every
\* Task of a known category.
C3_UnknownCategoriesSortLast ==
    \A i, j \in 1..Len(TASKS) :
        (~KnownCategory(TASKS[i]) /\ KnownCategory(TASKS[j])) => j < i

\* C3 (amended): every Task of an unknown category is placed before every
\* Task of a known category.
C3_UnknownCategoriesSortFirst ==
    \A i, j \in 1..Len(TASKS) :
        (~KnownCategory(TASKS[i]) /\ KnownCategory(TASKS[j])) => i < j

\* C3 witness: the corpus holds a Task of an unknown and one of a known
\* category.
C3_Witness ==
    \E i, j \in 1..Len(TASKS) :
        ~KnownCategory(TASKS[i]) /\ KnownCategory(TASKS[j])

\* C4: among the Tasks of known categories, a Task of an earlier category
\* is placed before a Task of a later one, and of two Tasks of one category
\* the one placed first has the smaller or equal description.
C4_SortedByCategoryThenDescription ==
    \A i, j \in 1..Len(TASKS) :
        (KnownCategory(TASKS[i]) /\ KnownCategory(TASKS[j])) =>
            /\ CategoryPosition(TASKS[i].category)
                   < CategoryPosition(TASKS[j].category) => i < j
            /\ (TASKS[i].category = TASKS[j].category /\ i < j) =>
                   ~StrLess(TASKS[j].description, TASKS[i].description)

\* C4 witness: two Tasks of one known category with different descriptions
\* and a Task of a later category.
C4_Witness ==
    \E i, j, k \in 1..Len(TASKS) :
        /\ KnownCategory(TASKS[i])
        /\ TASKS[i].category = TASKS[j].category
        /\ StrLess(TASKS[i].description, TASKS[j].description)
        /\ KnownCategory(TASKS[k])
        /\ CategoryPosition(TASKS[i].category)
               < CategoryPosition(TASKS[k].category)

\* C5 (as claimed): in the Task Detail View of a partly implemented task the
\* minimap has a cell for every language, and the body cell of a language
\* without a Program shows "Not implemented".
C5_EveryLanguageHasACell ==
    PartlyImplementedTaskView =>
        \A l \in Range(LANGUAGES) :
            \E i \in 1..Len(Minimap(route)) :
                /\ Minimap(route)[i].pivot = l.id
                /\ ~HasProgram(route.id, l.id) =>
                       Minimap(route)[i].body.kind = "Not implemented"

\* C5 (amended): in the Task Detail View of a partly implemented task the
\* minimap has a cell for exactly the languages that have a Program for the
\* task, and no body cell shows "Not implemented".
C5_OnlyImplementedLanguagesHaveACell ==
    PartlyImplementedTaskView =>
        /\ \A l \in Range(LANGUAGES) :
               HasProgram(route.id, l.id) <=>
                   \E i \in 1..Len(Minimap(route)) :
                       Minimap(route)[i].pivot = l.id
        /\ \A i \in 1..Len(Minimap(route)) :
               Minimap(route)[i].body.kind = "Cell"

\* C5 witness: the Task Detail View of a task with a Program for one
\* language and none for another is on screen.
C5_Witness ==
    /\ PartlyImplementedTaskView
    /\ Len(Minimap(route)) >= 1

\* C6: valid_values is the pivot axis's ordered collection restricted to
\* the values that some Program of the group has, in the collection's order.
C6_ValidValuesAreTheRepresentedValues ==
    BoundDetailView =>
        valid_values(route) =
            SelectSeq(IF route.view = "task" THEN LANGUAGES ELSE TASKS,
                      LAMBDA v : Represented(v.id))

\* C6 witness: a Language Detail View with two valid tasks whose programs
\* were loaded in the opposite order, and a task that is not represented.
C6_Witness ==
    /\ rendered
    /\ route.view = "lang"
    /\ Len(valid_values(route)) = 2
    /\ Len(TASKS) > 2
    /\ programs(route)[1].task = valid_values(route)[2].id

\* C7: a Matrix data cell is highlighted exactly when the hover is its
\* row's task or its column's language.
C7_CellHighlightedIffRowOrColumnHovered ==
    InMatrix =>
        \A t \in MatrixRowTasks, l \in Range(LANGUAGES) :
            Highlighted(DataCellClass(matrix_hover, t, l)) <=>
                \/ matrix_hover = [type |-> "task", id |-> t.id]
                \/ matrix_hover = [type |-> "lang", id |-> l.id]

\* C7 witness: a language column header is hovered in a Matrix with rows.
C7_Witness ==
    /\ InMatrix
    /\ last.op = "th.enter"
    /\ matrix_hover.type = "lang"
    /\ MatrixRowTasks # {}

C9_HoverKeepsSelection ==
    [][last'.op \in {"cell.enter", "cell.leave"} =>
          selected' = selected /\ route' = route]_vars

\* C9 witness: a minimap cell was entered while ids were selected.
C9_Witness ==
    /\ rendered
    /\ last.op = "cell.enter"
    /\ hover # null
    /\ Len(selected) = 2

\* C10: two clicks in a row on one minimap cell, the first on the empty
\* selection, leave the selection empty.
C10_DoubleToggleFromEmptyIsEmpty ==
    toggle_run.n = 2 => selected = <<>>

\* C10 witness: the second of two such clicks has been handled.
C10_Witness ==
    /\ rendered
    /\ last.op = "cell.click"
    /\ toggle_run.n = 2

\* C11 (as claimed): whenever a Detail View of another group value comes
\* on screen, selected is empty and hover is none.
C11_ArrivalResetsSelectionAndHover ==
    [][(route'.view # "matrix" /\ route' # route) =>
          (selected' = <<>> /\ hover' = null)]_vars

\* C14 (as claimed): a Detail View of an existing Task or Language renders
\* in every reachable state, whatever ids are selected.
C14_DetailViewAlwaysRenders ==
    BoundDetailView => rendered

\* C12 (as claimed): a Detail View location whose id matches no Task (resp.
\* no Language) still reaches a rendered state.
C12_UnknownIdStillRenders ==
    (route.view # "matrix" /\ group_value(route) = undefined) => rendered

\* C13 (as claimed): the Matrix View reaches a rendered state for every
\* corpus, also when a category of the fixed order has no Task and when a
\* Task has a category outside the fixed order.
C13_MatrixAlwaysRenders ==
    route.view = "matrix" => rendered

\* the load-order positions of the Programs of task taskId in language langId
ProgramPositions(taskId, langId) ==
    {i \in 1..Len(PROGRAMS) :
        PROGRAMS[i].task = taskId /\ PROGRAMS[i].language = langId}

\* C15: in the Matrix every data cell (t, l) shows the first Program in load
\* order whose task is t.id and whose language is l.id, and it is empty
\* exactly when there is no such Program.
C15_DataCellShowsFirstProgram ==
    InMatrix =>
        \A t \in MatrixRowTasks, l \in Range(LANGUAGES) :
            LET at == ProgramPositions(t.id, l.id)
            IN  /\ DataCell(t, l) = <<>> <=> at = {}
                /\ at # {} =>
                     /\ Len(DataCell(t, l)) = 1
                     /\ DataCell(t, l)[1].task = t
                     /\ \E i \in at :
                          /\ \A j \in at : i <= j
                          /\ DataCell(t, l)[1].program = PROGRAMS[i]

\* C15 witness: a Matrix in which one cell has two Programs to choose from
\* and another cell of the same row has none.
C15_Witness ==
    /\ InMatrix
    /\ \E t \in MatrixRowTasks :
         /\ \E l \in Range(LANGUAGES) :
              Cardinality(ProgramPositions(t.id, l.id)) = 2
         /\ \E l \in Range(LANGUAGES) : ProgramPositions(t.id, l.id) = {}

\* C16 (as claimed): navigation is a machine over three views. A click on
\* the column header of language L in the Matrix View shows the Language
\* Detail View bound to L, a click on the task-description cell of task T
\* shows the Task Detail View bound to T, Back in a Detail View shows the
\* Matrix View, and the view changes in no other way.
C16_NavigationIsThreeViewMachine ==
    [][/\ route'.view \in {"matrix", "task", "lang"}
       /\ last'.op = "th.click" =>
            /\ route.view = "matrix"
            /\ \E l \in Range(LANGUAGES) :
                 route' = LangRoute(l.id) /\ group_value(route') = l
            /\ rendered'
       /\ last'.op = "td.click" =>
            /\ route.view = "matrix"
            /\ \E t \in Range(TASKS) :
                 route' = TaskRoute(t.id) /\ group_value(route') = t
            /\ rendered'
       /\ last'.op = "back" =>
            /\ route.view # "matrix"
            /\ route' = MATRIX_ROUTE
            /\ rendered'
       /\ route' # route => last'.op \in {"th.click", "td.click", "back"}
      ]_vars

\* the panels are those of the selected ids, in selection order, two per row
PanelsFollowSelection ==
    InPivotView =>
        LET rows == ProgramRows(route, selected)
            k == Len(selected)
            key == pivot_key(route)
        IN  /\ Len(rows) = (k + 1) \div 2
            /\ \A j \in 1..Len(rows) :
                 /\ Len(rows[j]) = IF 2 * j <= k THEN 2 ELSE 1
                 /\ \A i \in 1..Len(rows[j]) :
                      LET id == selected[2 * (j - 1) + i]
                      IN  /\ rows[j][i].program[key] = id
                          /\ rows[j][i].program[group_key(route)] = route.id
                          /\ \E v \in Range(pivot_values(route)) :
                               /\ v.id = id
                               /\ rows[j][i].heading = v[desc_key(key)]

\* C17: the panels of a Detail View are drawn in selection order, two per
\* row (row j holds the panels of the ids at positions 2j and 2j+1 counted
\* from 0, the last row one panel when the number is odd), and a click that
\* adds an id puts it after all ids selected before.
C17_PanelsInSelectionOrderTwoPerRow ==
    /\ []PanelsFollowSelection
    /\ [][(last'.op = "cell.click" /\ ~includes(selected, last'.id)) =>
             selected' = Append(selected, last'.id)]_vars

\* C17 witness: a click has just added a third id, so there are two rows and
\* the second holds one panel.
C17_Witness ==
    /\ InPivotView
    /\ last.op = "cell.click"
    /\ Len(selected) = 3
    /\ selected[3] = last.id
    /\ Len(ProgramRows(route, selected)) = 2
    /\ Len(ProgramRows(route, selected)[2]) = 1

\* C18: in a Detail View the selected list has no id twice, and every
\* selected id is the id of an element of valid_values.
C18_SelectedIsDuplicateFreeAndValid ==
    InPivotView =>
        /\ \A i, j \in 1..Len(selected) : selected[i] = selected[j] => i = j
        /\ \A i \in 1..Len(selected) :
               \E v \in Range(valid_values(route)) : v.id = selected[i]

\* C18 witness: a click has extended a selection to two ids.
C18_Witness ==
    /\ InPivotView
    /\ last.op = "cell.click"
    /\ Len(selected) = 2
    /\ selected[2] = last.id

\* C19: in a Detail View of an existing Task or Language every element of
\* valid_values resolves to a Program of the group, so line 112 never reads
\* the task field of undefined.
C19_ValidValuesResolve ==
    BoundDetailView =>
        \A v \in Range(valid_values(route)) :
            /\ resolve(route, v.id) # undefined
            /\ resolve(route, v.id) \in Range(programs(route))

\* C19 witness: a rendered Detail View with a minimap column, over a corpus
\* in which another pivot value has Programs only in other groups.
C19_Witness ==
    /\ BoundDetailView
    /\ rendered
    /\ valid_values(route) # <<>>
    /\ \E v \in Range(pivot_values(route)) :
         /\ v \notin Range(valid_values(route))
         /\ \E p \in Range(PROGRAMS) : p[pivot_key(route)] = v.id

====
